---- MODULE Spec2Model ----
(***************************************************************************)
(* A model of analasys.py: the metadata parser (get_sample_groups), the    *)
(* loader (load_and_clean_data), the analysis interface (run_analysis) and *)
(* the menu loop (main).                                                   *)
(*                                                                         *)
(* Text is modelled as sequences of one-character strings, so that         *)
(* str.split, str.strip and str.capitalize are computed character by       *)
(* character.  A cell of the expression table is <<>> (NaN) or <<v>>.      *)
(***************************************************************************)
EXTENDS Integers, Sequences, FiniteSets, TLC

VARIABLES
    pc,             \* position of the program
    file,           \* the input file GSE1000_series_matrix.txt
    data,           \* main: data (the DataFrame, or None)
    sample_map,     \* main: sample_map
    groups_outcome, \* which return of get_sample_groups was taken
    title,          \* a raw title cell of the !Sample_title line
    clean_name,     \* the label derived from it
    target_probe,   \* run_analysis: target_probe
    g1,             \* run_analysis: g1
    g2,             \* run_analysis: g2
    result,         \* what the last command reported
    status,         \* "running", "exited" (main returned) or "crashed" (uncaught)
    exit_cause      \* why main returned

vars == <<pc, file, data, sample_map, groups_outcome, title, clean_name,
          target_probe, g1, g2, result, status, exit_cause>>

(***************************************************************************)
(* Bounds of the model.                                                    *)
(***************************************************************************)
MaxTitleLen == 4
MaxCells == 2
MaxList == 2

(***************************************************************************)
(* Strings.                                                                *)
(***************************************************************************)
LowerLetters == <<"a","b","c","d","e","f","g","h","i","j","k","l","m",
                  "n","o","p","q","r","s","t","u","v","w","x","y","z">>
UpperLetters == <<"A","B","C","D","E","F","G","H","I","J","K","L","M",
                  "N","O","P","Q","R","S","T","U","V","W","X","Y","Z">>

Range(s) == {s[i] : i \in DOMAIN s}

Min(a, b) == IF a < b THEN a ELSE b

\* str.upper / str.lower on one character
UpperChar(c) ==
    IF \E i \in DOMAIN LowerLetters : LowerLetters[i] = c
    THEN UpperLetters[CHOOSE i \in DOMAIN LowerLetters : LowerLetters[i] = c]
    ELSE c

LowerChar(c) ==
    IF \E i \in DOMAIN UpperLetters : UpperLetters[i] = c
    THEN LowerLetters[CHOOSE i \in DOMAIN UpperLetters : UpperLetters[i] = c]
    ELSE c

\* str.capitalize(): first character upper-cased, the rest lower-cased
Capitalize(s) ==
    [i \in DOMAIN s |-> IF i = 1 THEN UpperChar(s[i]) ELSE LowerChar(s[i])]

\* s.split(c)[0]: the part of s before the first occurrence of c
SplitFirst(s, c) ==
    IF \E i \in DOMAIN s : s[i] = c
    THEN SubSeq(s, 1, (CHOOSE i \in DOMAIN s :
                          /\ s[i] = c
                          /\ \A j \in 1..(i - 1) : s[j] # c) - 1)
    ELSE s

\* s.strip(chars): leading and trailing characters of the set removed
StripSet(s, chars) ==
    IF \A i \in DOMAIN s : s[i] \in chars
    THEN <<>>
    ELSE LET keep  == {i \in DOMAIN s : s[i] \notin chars}
             first == CHOOSE i \in keep : \A j \in keep : i <= j
             last  == CHOOSE i \in keep : \A j \in keep : j <= i
         IN  SubSeq(s, first, last)

\* the characters str.strip() removes when called without an argument
Whitespace == {" ", "\n", "\t", "\r"}

\* the characters of strip('" \n')
CellStripChars == {"\"", " ", "\n"}

\* t.strip('" \n') of lines 16 and 18
StripCell(cell) == StripSet(cell, CellStripChars)

\* line 22 without the ':' split
CleanNameNoColon(t) ==
    Capitalize(StripSet(SplitFirst(SplitFirst(t, " "), "_"), Whitespace))

\* line 22: title.split(' ')[0].split('_')[0].split(':')[0].strip().capitalize()
CleanName(t) ==
    Capitalize(StripSet(SplitFirst(SplitFirst(SplitFirst(t, " "), "_"), ":"),
                        Whitespace))

(***************************************************************************)
(* 1. The metadata parser: get_sample_groups.                              *)
(***************************************************************************)
BrainL == <<"B","r","a","i","n">>
LungL == <<"L","u","n","g">>
ColonL == <<"C","o","l","o","n">>

Digit == <<"0","1","2","3","4","5","6","7","8","9">>

\* the accession "GSM15" followed by the three digits of n
GSM(n) == <<"G","S","M","1","5">> \o
          <<Digit[(n \div 100) + 1], Digit[((n \div 10) % 10) + 1], Digit[(n % 10) + 1]>>

\* lines 29-33: the table substituted when "Brain" is not a key
DefaultTable ==
    (BrainL :> <<GSM(785), GSM(786), GSM(787), GSM(788), GSM(789)>>) @@
    (LungL  :> <<GSM(790), GSM(791), GSM(792), GSM(794), GSM(795)>>) @@
    (ColonL :> <<GSM(796), GSM(797), GSM(798), GSM(799), GSM(800)>>)

\* an except branch that returns an empty dict
ExceptTableEmpty == <<>>

\* line 37: what the except branch returns
ExceptTable == (BrainL :> <<>>) @@ (LungL :> <<>>)

\* line 8: sample_mapping = {}
EmptyMapping == <<>>

\* line 10-11: open() and readlines() raise when the file is missing or its
\* bytes do not decode in the locale's encoding
ReadRaises(f) == ~f.exists \/ ~f.decodable

\* lines 14-16: the cells of the last '!Sample_title' line without 'aspartic'
TitlesOf(meta) ==
    LET idx == {i \in DOMAIN meta : meta[i].marker = "title" /\ ~meta[i].aspartic}
    IN  IF idx = {} THEN <<>>
        ELSE LET last == CHOOSE i \in idx : \A j \in idx : j <= i
             IN  [k \in DOMAIN meta[last].cells |-> StripCell(meta[last].cells[k])]

\* lines 14, 17-18: the cells of the last '!Sample_geo_accession' line
GeoIdsOf(meta) ==
    LET idx == {i \in DOMAIN meta : meta[i].marker = "geo"}
    IN  IF idx = {} THEN <<>>
        ELSE LET last == CHOOSE i \in idx : \A j \in idx : j <= i
             IN  [k \in DOMAIN meta[last].cells |-> StripCell(meta[last].cells[k])]

\* an append that also adds the id to every list already in the mapping
AddSampleToAll(m, name, geo_id) ==
    LET m1 == [k \in DOMAIN m |-> Append(m[k], geo_id)]
    IN  IF name \in DOMAIN m THEN m1 ELSE m1 @@ (name :> <<geo_id>>)

\* lines 23-25: create the list if the label is new, then append
AddSample(m, name, geo_id) ==
    IF name \in DOMAIN m
    THEN [m EXCEPT ![name] = Append(@, geo_id)]
    ELSE m @@ (name :> <<geo_id>>)

\* lines 21-25: the loop over zip(titles, geo_ids), from position i on
RECURSIVE BuildMapping(_, _, _, _)
BuildMapping(titles, geo_ids, i, m) ==
    IF i > Min(Len(titles), Len(geo_ids))
    THEN m
    ELSE BuildMapping(titles, geo_ids, i + 1,
                      AddSample(m, CleanName(titles[i]), geo_ids[i]))

\* lines 20-25: the mapping inferred from the two rows
InferredMapping(meta) ==
    LET titles  == TitlesOf(meta)
        geo_ids == GeoIdsOf(meta)
    IN  IF titles # <<>> /\ geo_ids # <<>>
        THEN BuildMapping(titles, geo_ids, 1, EmptyMapping)
        ELSE EmptyMapping

\* lines 7-37: the mapping returned and the return taken
GetSampleGroups(f) ==
    IF ReadRaises(f)
    THEN [outcome |-> "except", map |-> ExceptTable]
    ELSE LET m == InferredMapping(f.meta)
         IN  IF BrainL \notin DOMAIN m
             THEN [outcome |-> "fallback", map |-> DefaultTable]
             ELSE [outcome |-> "inferred", map |-> m]

(***************************************************************************)
(* 2. Data loading: load_and_clean_data.                                   *)
(*                                                                         *)
(* file.header is the column-header row read_csv finds after the skipped   *)
(* and comment lines (<<>>: nothing left to parse); file.body holds the    *)
(* rows below it, each with its first cell and the text of the others.     *)
(* read_csv renames repeated header names, so the names are distinct.      *)
(***************************************************************************)
NaN == <<>>

\* line 53: pd.to_numeric(errors='coerce') on one cell
ToNumeric(tok) ==
    CASE tok = "1" -> <<1>>
      [] tok = "2" -> <<2>>
      [] OTHER -> NaN

\* line 49: astype(str).str.strip() on one Probe_ID cell (an empty cell is
\* read as NaN, whose str() is 'nan')
ProbeStr(cell) ==
    IF cell = <<>> THEN <<"n","a","n">> ELSE StripSet(cell, Whitespace)

\* line 64 (and the three except branches before it): return None
NoData(err) == [loaded |-> FALSE, error |-> err, columns |-> <<>>, rows |-> <<>>]

\* lines 48-53: the frame indexed by Probe_ID, every cell coerced
Coerced(f) ==
    [loaded  |-> TRUE,
     error   |-> "none",
     columns |-> Tail(f.header),
     rows    |-> [r \in DOMAIN f.body |->
                     [probe |-> ProbeStr(f.body[r].probe),
                      vals  |-> [c \in DOMAIN f.body[r].toks |->
                                    ToNumeric(f.body[r].toks[c])]]]]

\* the positions of the columns dropna(how='all', axis=1) keeps
KeptColumns(df) ==
    {c \in DOMAIN df.columns : \E r \in DOMAIN df.rows : df.rows[r].vals[c] # NaN}

\* the subsequence of s at the positions in keep
RECURSIVE Pick(_, _, _)
Pick(s, keep, i) ==
    IF i > Len(s) THEN <<>>
    ELSE (IF i \in keep THEN <<s[i]>> ELSE <<>>) \o Pick(s, keep, i + 1)

\* a dropna that is skipped
KeepAllColumns(df) == df

\* line 54: df.dropna(how='all', axis=1, inplace=True)
DropEmptyColumns(df) ==
    LET keep == KeptColumns(df)
    IN  [df EXCEPT !.columns = Pick(df.columns, keep, 1),
                   !.rows = [r \in DOMAIN df.rows |->
                                [df.rows[r] EXCEPT !.vals = Pick(@, keep, 1)]]]

\* lines 40-64
LoadAndCleanData(f) ==
    IF ~f.exists THEN NoData("FileNotFoundError")        \* lines 58-59
    ELSE IF f.header = <<>> THEN NoData("EmptyDataError") \* lines 60-61
    ELSE IF f.body = <<>> THEN NoData("ValueError")       \* lines 45-46, 62-63
    ELSE DropEmptyColumns(Coerced(f))

(***************************************************************************)
(* 3. The analysis interface: run_analysis.                                *)
(***************************************************************************)
NoResult == [kind |-> "none", named |-> {}, ttest |-> FALSE, printed |-> FALSE]

Report(kind, named, ttest, printed) ==
    [kind |-> kind, named |-> named, ttest |-> ttest, printed |-> printed]

\* the rows of df whose index label is p
ProbeRows(df, p) == {r \in DOMAIN df.rows : df.rows[r].probe = p}

\* line 76: target_probe in df.index
InIndex(df, p) == ProbeRows(df, p) # {}

\* the position of column id in df.columns
ColumnOf(df, id) == CHOOSE c \in DOMAIN df.columns : df.columns[c] = id

\* lines 88-89: the labels of ids that df.loc[probe][ids] raises KeyError for
MissingIds(df, ids) == Range(ids) \ Range(df.columns)

\* df.loc[probe][ids] on row r (all ids are columns)
Selected(df, r, ids) ==
    [i \in DOMAIN ids |-> df.rows[r].vals[ColumnOf(df, ids[i])]]

\* lines 88-89, 91: len(df.loc[probe][ids].dropna()).  One row labelled probe:
\* a Series, its NaN entries dropped.  Several rows: a DataFrame, its rows
\* with any NaN dropped, and len counts the rows left.
DataLen(df, p, ids) ==
    LET rs == ProbeRows(df, p)
    IN  IF Cardinality(rs) = 1
        THEN LET r == CHOOSE x \in rs : TRUE
             IN  Len(SelectSeq(Selected(df, r, ids), LAMBDA v : v # NaN))
        ELSE Cardinality({r \in rs :
                 \A i \in DOMAIN ids : Selected(df, r, ids)[i] # NaN})

\* a check that lets one value per group through
TooFewBelowOne(n1, n2) == n1 < 1 \/ n2 < 1

\* line 91
TooFew(n1, n2) == n1 < 2 \/ n2 < 2

\* a message for an unknown probe that does not name it
ProbeNotFoundUnnamed(p) == Report("probe_not_found", {}, FALSE, FALSE)

\* line 77: the message names target_probe
ProbeNotFound(p) == Report("probe_not_found", {p}, FALSE, FALSE)

\* a KeyError that falls through to the generic handler of lines 111-112
KeyErrorAsGeneric(ids) == Report("analysis_error", {}, FALSE, FALSE)

\* lines 109-110: the KeyError handler; str(e) lists the labels not found
KeyErrorReport(ids) == Report("sample_id_mismatch", ids, FALSE, FALSE)

\* lines 83-107 and their handlers at 109-112, for a probe in the index
AnalysisTail(df, map, p, a, b, plot_ok) ==
    IF a \notin DOMAIN map \/ b \notin DOMAIN map
    THEN Report("group_not_found", {}, FALSE, FALSE)              \* line 84
    ELSE IF MissingIds(df, map[a]) # {}
    THEN KeyErrorReport(MissingIds(df, map[a]))                   \* line 88
    ELSE IF MissingIds(df, map[b]) # {}
    THEN KeyErrorReport(MissingIds(df, map[b]))                   \* line 89
    ELSE IF TooFew(DataLen(df, p, map[a]), DataLen(df, p, map[b]))
    THEN Report("insufficient_data", {}, FALSE, FALSE)            \* line 92
    ELSE IF Cardinality(ProbeRows(df, p)) > 1
    \* data1 and data2 are DataFrames: ttest_ind runs column-wise (or raises
    \* on a shape mismatch) and formatting data1.mean() with ':.4f' raises
    THEN Report("analysis_error", {}, TRUE, FALSE)
    ELSE IF plot_ok
    THEN Report("ok", {}, TRUE, TRUE)
    ELSE Report("analysis_error", {}, TRUE, TRUE)                 \* line 112

(***************************************************************************)
(* 4. The main program and the steps of the session.                       *)
(***************************************************************************)
\* lines 111 and 144: 'except Exception' catches everything but
\* KeyboardInterrupt, which derives from BaseException
IsException(exc) == exc # "KeyboardInterrupt"

\* a loop that also leaves after a comparison
LoopBreaksAfterCompare(choice) == choice \in {"2", "3"}

\* lines 138-140: only choice '3' breaks out of 'while True'
LoopBreaks(choice) == choice = "3"

\* where the session stands when the branch taken for choice has finished
AfterCommand(choice) ==
    IF LoopBreaks(choice)
    THEN [pc |-> "done", status |-> "exited", cause |-> "exit_command"]
    ELSE [pc |-> "menu", status |-> "running", cause |-> "none"]

\* line 134: matches[:10]
SearchLimit == 10

\* whether t occurs in s, ignoring case
Contains(s, t) ==
    LET ls == [i \in DOMAIN s |-> LowerChar(s[i])]
        lt == [i \in DOMAIN t |-> LowerChar(t[i])]
    IN  \E i \in 1..(Len(ls) - Len(lt) + 1) : SubSeq(ls, i, i + Len(lt) - 1) = lt

\* str.contains takes the term as a regular expression: an unbalanced '['
\* makes re.compile raise
BadRegex(t) == \E i \in DOMAIN t : t[i] = "["

\* lines 132-135: the first SearchLimit index labels that contain term
Matches(df, term) ==
    LET hit == {r \in DOMAIN df.rows : Contains(df.rows[r].probe, term)}
        top == {r \in hit : Cardinality({q \in hit : q < r}) < SearchLimit}
    IN  {df.rows[r].probe : r \in top}

\* line 22 applied to a cell of the title line: lines 16 and 22
DeriveLabel ==
    /\ pc = "title"
    /\ clean_name' = CleanName(StripCell(title))
    /\ pc' = "labelled"
    /\ UNCHANGED <<file, data, sample_map, groups_outcome, title, target_probe,
                   g1, g2, result, status, exit_cause>>

\* lines 117-120: data = load_and_clean_data(FILE_NAME)
Load ==
    /\ pc = "load"
    /\ data' = LoadAndCleanData(file)
    /\ pc' = IF data'.loaded THEN "groups" ELSE "exit_prompt"
    /\ UNCHANGED <<file, sample_map, groups_outcome, title, clean_name,
                   target_probe, g1, g2, result, status, exit_cause>>

\* line 119-120: Enter at "Press Enter to exit...", then return
ExitPrompt ==
    /\ pc = "exit_prompt"
    /\ pc' = "done"
    /\ status' = "exited"
    /\ exit_cause' = "load_failed"
    /\ UNCHANGED <<file, data, sample_map, groups_outcome, title, clean_name,
                   target_probe, g1, g2, result>>

\* line 122: sample_map = get_sample_groups(FILE_NAME)
GetGroups ==
    /\ pc = "groups"
    /\ LET g == GetSampleGroups(file)
       IN  /\ sample_map' = g.map
           /\ groups_outcome' = g.outcome
    /\ pc' = "menu"
    /\ UNCHANGED <<file, data, title, clean_name, target_probe, g1, g2, result,
                   status, exit_cause>>

MenuChoices == {"1", "2", "3", "9"}

\* lines 126-140: the menu prompt and the dispatch on choice
MenuPrompt ==
    /\ pc = "menu"
    /\ \E choice \in MenuChoices :
          LET next == IF choice = "1"
                      THEN [pc |-> "search_prompt", status |-> "running", cause |-> "none"]
                      ELSE IF choice = "2"
                      THEN [pc |-> "probe_prompt", status |-> "running", cause |-> "none"]
                      ELSE AfterCommand(choice)
          IN  /\ pc' = next.pc
              /\ status' = next.status
              /\ exit_cause' = next.cause
    /\ result' = NoResult
    /\ target_probe' = <<>>
    /\ g1' = <<>>
    /\ g2' = <<>>
    /\ UNCHANGED <<file, data, sample_map, groups_outcome, title, clean_name>>

SearchTerms == {<<"p">>, <<" ", "Q">>, <<"[">>, <<>>}

\* lines 131-135, and 144-145 when str.contains raises
SearchPrompt ==
    /\ pc = "search_prompt"
    /\ \E inp \in SearchTerms :
          LET term == StripSet(inp, Whitespace)
          IN  result' = IF BadRegex(term)
                        THEN Report("menu_error", {}, FALSE, FALSE)
                        ELSE Report("search", Matches(data, term), FALSE, FALSE)
    /\ pc' = AfterCommand("1").pc
    /\ status' = AfterCommand("1").status
    /\ exit_cause' = AfterCommand("1").cause
    /\ UNCHANGED <<file, data, sample_map, groups_outcome, title, clean_name,
                   target_probe, g1, g2>>

ProbeInputs == {<<"P">>, <<"P", " ">>, <<"Z">>}

GroupInputs == {<<"b","r","a","i","n">>, <<"L","U","N","G">>, <<"h","e","a","r","t">>}

\* lines 69-78: the probe prompt
ProbePrompt ==
    /\ pc = "probe_prompt"
    /\ \E inp \in ProbeInputs :
          /\ target_probe' = StripSet(inp, Whitespace)
          /\ IF InIndex(data, target_probe')
             THEN /\ pc' = "g1_prompt"
                  /\ UNCHANGED <<result, status, exit_cause>>
             ELSE /\ result' = ProbeNotFound(target_probe')
                  /\ pc' = AfterCommand("2").pc
                  /\ status' = AfterCommand("2").status
                  /\ exit_cause' = AfterCommand("2").cause
    /\ UNCHANGED <<file, data, sample_map, groups_outcome, title, clean_name, g1, g2>>

\* line 80
G1Prompt ==
    /\ pc = "g1_prompt"
    /\ \E inp \in GroupInputs : g1' = Capitalize(inp)
    /\ pc' = "g2_prompt"
    /\ UNCHANGED <<file, data, sample_map, groups_outcome, title, clean_name,
                   target_probe, g2, result, status, exit_cause>>

\* lines 81-112: the last prompt and the rest of run_analysis; plot_ok is
\* whether the plotting calls of lines 100-107 return without raising
G2Prompt ==
    /\ pc = "g2_prompt"
    /\ \E inp \in GroupInputs, plot_ok \in BOOLEAN :
          /\ g2' = Capitalize(inp)
          /\ result' = AnalysisTail(data, sample_map, target_probe, g1, g2', plot_ok)
    /\ pc' = AfterCommand("2").pc
    /\ status' = AfterCommand("2").status
    /\ exit_cause' = AfterCommand("2").cause
    /\ UNCHANGED <<file, data, sample_map, groups_outcome, title, clean_name,
                   target_probe, g1>>

Prompts == {"exit_prompt", "menu", "search_prompt", "probe_prompt", "g1_prompt", "g2_prompt"}

\* input() raises exc (Ctrl-C: KeyboardInterrupt; end of input: EOFError) at
\* the prompt the program is blocked on
InputRaises ==
    /\ pc \in Prompts
    /\ \E exc \in {"KeyboardInterrupt", "EOFError"} :
          IF pc = "exit_prompt"
          THEN \* line 119 is outside every try: the exception leaves main
               /\ pc' = "done"
               /\ status' = "crashed"
               /\ exit_cause' = exc
               /\ UNCHANGED result
          ELSE IF pc \in {"probe_prompt", "g1_prompt", "g2_prompt"} /\ IsException(exc)
          THEN \* lines 111-112, then run_analysis returns to line 137
               /\ result' = Report("analysis_error", {}, FALSE, FALSE)
               /\ pc' = AfterCommand("2").pc
               /\ status' = AfterCommand("2").status
               /\ exit_cause' = AfterCommand("2").cause
          ELSE IF IsException(exc)
          THEN \* lines 144-145: report and loop
               /\ result' = Report("menu_error", {}, FALSE, FALSE)
               /\ pc' = "menu"
               /\ UNCHANGED <<status, exit_cause>>
          ELSE \* lines 141-143: KeyboardInterrupt breaks out of the loop
               /\ pc' = "done"
               /\ status' = "exited"
               /\ exit_cause' = "interrupt"
               /\ UNCHANGED result
    /\ UNCHANGED <<file, data, sample_map, groups_outcome, title, clean_name,
                   target_probe, g1, g2>>

(***************************************************************************)
(* 5. The bounded inputs and the specifications.                            *)
(***************************************************************************)
SeqsUpTo(S, n) == UNION {[1..k -> S] : k \in 0..n}

Q(str) == <<"\"">> \o str \o <<"\"">>

NoFile == [exists |-> FALSE, decodable |-> FALSE, meta |-> <<>>,
           header |-> <<>>, body |-> <<>>]

Unset == <<>>

\* sample accessions: IdA and IdB are columns of the table, IdX never is
IdA == <<"G","1">>
IdB == <<"G","2">>
IdX == <<"G","9">>

\* ---- titles, for the label derivation
TitleAlphabet == {"a", "B", " ", "_", ":"}

Titles == SeqsUpTo(TitleAlphabet, MaxTitleLen)

InitLabel ==
    /\ pc = "title"
    /\ title \in Titles
    /\ clean_name = Unset
    /\ file = NoFile
    /\ data = NoData("not_loaded")
    /\ sample_map = EmptyMapping
    /\ groups_outcome = "none"
    /\ target_probe = Unset
    /\ g1 = Unset
    /\ g2 = Unset
    /\ result = NoResult
    /\ status = "running"
    /\ exit_cause = "none"

SpecLabel == InitLabel /\ [][DeriveLabel]_vars

\* ---- metadata lines, for get_sample_groups
TitleCells == {Q(<<"b","r","a","i","n"," ","1">>),
               Q(<<"B","R","A","I","N","_","2">>) \o <<"\n">>,
               <<"l","u","n","g",":","x">>,
               Q(<<>>)}

GeoCells == {Q(IdA), IdA \o <<"\n">>, Q(IdB)}

TitleLines == {[marker |-> "title", aspartic |-> a, cells |-> c] :
                  a \in BOOLEAN, c \in SeqsUpTo(TitleCells, MaxCells)}

GeoLines == {[marker |-> "geo", aspartic |-> FALSE, cells |-> c] :
                c \in SeqsUpTo(GeoCells, MaxCells)}

OtherLine == [marker |-> "other", aspartic |-> FALSE, cells |-> <<>>]

LaterTitleLines ==
    {[marker |-> "title", aspartic |-> TRUE, cells |-> <<Q(<<"l","u","n","g">>)>>],
     [marker |-> "title", aspartic |-> FALSE, cells |-> <<Q(<<"c","o","l","o","n">>)>>]}

Metas ==
    {<<>>}
    \cup {<<t>> : t \in TitleLines}
    \cup {<<g>> : g \in GeoLines}
    \cup {<<OtherLine, g, t>> : g \in GeoLines, t \in TitleLines}
    \cup {<<t, t2, g>> : t \in TitleLines, t2 \in LaterTitleLines, g \in GeoLines}

BrainMeta ==
    <<[marker |-> "title", aspartic |-> FALSE,
       cells |-> <<Q(<<"b","r","a","i","n"," ","1">>), Q(<<"B","R","A","I","N","_","2">>) \o <<"\n">>>>],
      [marker |-> "geo", aspartic |-> FALSE, cells |-> <<Q(IdA), Q(IdB) \o <<"\n">>>>]>>

GroupFiles ==
    {[exists |-> TRUE, decodable |-> TRUE, meta |-> m, header |-> <<>>, body |-> <<>>] :
        m \in Metas}
    \cup {[exists |-> e, decodable |-> FALSE, meta |-> m, header |-> <<>>, body |-> <<>>] :
             e \in BOOLEAN, m \in {<<>>, BrainMeta}}

InitGroups ==
    /\ pc = "groups"
    /\ file \in GroupFiles
    /\ data = NoData("not_loaded")
    /\ sample_map = EmptyMapping
    /\ groups_outcome = "none"
    /\ title = Unset
    /\ clean_name = Unset
    /\ target_probe = Unset
    /\ g1 = Unset
    /\ g2 = Unset
    /\ result = NoResult
    /\ status = "running"
    /\ exit_cause = "none"

SpecGroups == InitGroups /\ [][GetGroups]_vars

\* ---- tables, for load_and_clean_data
MaxRows == 2

IdCol == <<"I","D">>

Headers == {<<>>, <<IdCol>>, <<IdCol, IdA>>, <<IdCol, IdA, IdB>>}

ProbeCells == {<<"P">>, <<" ","P">>, <<"Q">>}

Tokens == {"1", "x"}

BodyRows(n) == {[probe |-> p, toks |-> t] : p \in ProbeCells, t \in [1..n -> Tokens]}

TablesWith(h) ==
    IF h = <<>> THEN {<<>>} ELSE SeqsUpTo(BodyRows(Len(h) - 1), MaxRows)

LoadFiles ==
    UNION {{[exists |-> e, decodable |-> TRUE, meta |-> <<>>, header |-> h, body |-> b] :
               e \in BOOLEAN, b \in TablesWith(h)} : h \in Headers}

InitLoad ==
    /\ pc = "load"
    /\ file \in LoadFiles
    /\ data = NoData("not_loaded")
    /\ sample_map = EmptyMapping
    /\ groups_outcome = "none"
    /\ title = Unset
    /\ clean_name = Unset
    /\ target_probe = Unset
    /\ g1 = Unset
    /\ g2 = Unset
    /\ result = NoResult
    /\ status = "running"
    /\ exit_cause = "none"

SpecLoad == InitLoad /\ [][Load]_vars

\* ---- frames and mappings, for run_analysis
ProbeShapes == {<<<<"P">>>>, <<<<"P">>, <<"P">>>>, <<<<"P">>, <<"Q">>>>}

\* the frames load_and_clean_data can return with columns IdA, IdB: no
\* column is entirely NaN
Frames ==
    {df \in {[loaded |-> TRUE, error |-> "none", columns |-> <<IdA, IdB>>,
              rows |-> [r \in DOMAIN shape |-> [probe |-> shape[r], vals |-> v[r]]]] :
                shape \in ProbeShapes,
                v \in [1..2 -> [1..2 -> {NaN, <<1>>}]]} :
        /\ DOMAIN df.rows = 1..Len(df.rows)
        /\ KeptColumns(df) = DOMAIN df.columns}

IdPool == <<IdA, IdB, IdX>>

\* the non-empty lists over IdPool of at most MaxList ids, in pool order
\* (the order of a list changes no report)
IdLists ==
    {[i \in DOMAIN ix |-> IdPool[ix[i]]] :
        ix \in {s \in SeqsUpTo(DOMAIN IdPool, MaxList) :
                   /\ s # <<>>
                   /\ \A i \in 1..(Len(s) - 1) : s[i] <= s[i + 1]}}

\* mappings get_sample_groups can return: inferred ones with "Brain", with or
\* without "Lung", and the two fixed tables
Maps ==
    {(BrainL :> a) @@ (LungL :> b) : a \in IdLists, b \in IdLists}
    \cup {(BrainL :> a) : a \in IdLists}
    \cup {DefaultTable, ExceptTable}

InitAnalysis ==
    /\ pc = "probe_prompt"
    /\ data \in Frames
    /\ sample_map \in Maps
    /\ file = NoFile
    /\ groups_outcome = "none"
    /\ title = Unset
    /\ clean_name = Unset
    /\ target_probe = Unset
    /\ g1 = Unset
    /\ g2 = Unset
    /\ result = NoResult
    /\ status = "running"
    /\ exit_cause = "none"

NextAnalysis == ProbePrompt \/ G1Prompt \/ G2Prompt

SpecAnalysis == InitAnalysis /\ [][NextAnalysis]_vars

\* ---- whole sessions
MainMetas ==
    {BrainMeta,
     <<[marker |-> "title", aspartic |-> FALSE,
        cells |-> <<Q(<<"b","r","a","i","n">>), Q(<<"l","u","n","g",":","x">>) \o <<"\n">>>>],
       [marker |-> "geo", aspartic |-> FALSE, cells |-> <<Q(IdA), Q(IdX) \o <<"\n">>>>]>>,
     <<>>}

MainTables ==
    {[header |-> <<>>, body |-> <<>>],
     [header |-> <<IdCol, IdA, IdB>>,
      body |-> <<[probe |-> <<"P">>, toks |-> <<"1", "2">>],
                 [probe |-> <<"Q">>, toks |-> <<"x", "1">>]>>],
     [header |-> <<IdCol, IdA, IdB>>,
      body |-> <<[probe |-> <<"P">>, toks |-> <<"1", "">>],
                 [probe |-> <<" ","P">>, toks |-> <<"2", "1">>]>>],
     [header |-> <<IdCol, IdA>>,
      body |-> <<[probe |-> <<"P">>, toks |-> <<"x">>]>>]}

MainFiles ==
    {[exists |-> TRUE, decodable |-> d, meta |-> m, header |-> t.header, body |-> t.body] :
        d \in BOOLEAN, m \in MainMetas, t \in MainTables}
    \cup {NoFile}

Init ==
    /\ pc = "load"
    /\ file \in MainFiles
    /\ data = NoData("not_loaded")
    /\ sample_map = EmptyMapping
    /\ groups_outcome = "none"
    /\ title = Unset
    /\ clean_name = Unset
    /\ target_probe = Unset
    /\ g1 = Unset
    /\ g2 = Unset
    /\ result = NoResult
    /\ status = "running"
    /\ exit_cause = "none"

Next ==
    \/ Load
    \/ ExitPrompt
    \/ GetGroups
    \/ MenuPrompt
    \/ SearchPrompt
    \/ ProbePrompt
    \/ G1Prompt
    \/ G2Prompt
    \/ InputRaises

Spec == Init /\ [][Next]_vars

(***************************************************************************)
(* 6. The claims.                                                          *)
(***************************************************************************)

\* C1 (as stated): whenever get_sample_groups falls back, because reading
\* raised or because "Brain" is not a key, it returns exactly the table of
\* three labels with their five accessions each.
C1_FallbackIsDefaultTable ==
    groups_outcome \in {"fallback", "except"} => sample_map = DefaultTable

\* C2 (as stated): load_and_clean_data returns None or a frame with at least
\* one row and at least one sample column.
C2_LoadedFrameNotEmpty ==
    (pc # "load" /\ data.loaded) => (Len(data.rows) >= 1 /\ Len(data.columns) >= 1)

\* C3: get_sample_groups is total: it returns for every file, missing,
\* undecodable or without metadata, and the mapping returned has at least
\* one label; control reaches the menu loop with no error raised.
C3_GroupsTotal ==
    pc # "groups" => /\ pc = "menu"
                     /\ status = "running"
                     /\ groups_outcome \in {"inferred", "fallback", "except"}
                     /\ DOMAIN sample_map # {}

C3_Witness ==
    /\ pc = "menu"
    /\ groups_outcome = "except"
    /\ ~file.exists
    /\ DOMAIN sample_map = {BrainL, LungL}

\* the accessions zipped with titles: geo_ids[1..min(len)]
ZippedIds(meta) ==
    LET n == Min(Len(TitlesOf(meta)), Len(GeoIdsOf(meta)))
    IN  SubSeq(GeoIdsOf(meta), 1, n)

Disjoint(m) ==
    \A a \in DOMAIN m, b \in DOMAIN m : a # b => Range(m[a]) \cap Range(m[b]) = {}

\* C4 (as stated): in every inferred mapping each accession appears in at
\* most one group's list, also when the accession row repeats an accession.
C4_EachIdInOneGroup ==
    groups_outcome = "inferred" => Disjoint(sample_map)

\* C4 (amended): in every inferred mapping each zipped position adds its
\* accession to exactly one list, the one of its title's label (the length of
\* a list is the number of positions with that label), so the lists are
\* disjoint whenever the zipped accessions are pairwise distinct.
C4_EachPositionInOneGroup ==
    groups_outcome = "inferred" =>
        LET titles == TitlesOf(file.meta)
            ids    == ZippedIds(file.meta)
        IN  /\ \A L \in DOMAIN sample_map :
                  /\ Len(sample_map[L]) =
                        Cardinality({i \in DOMAIN ids : CleanName(titles[i]) = L})
                  /\ Range(sample_map[L]) =
                        {ids[i] : i \in {j \in DOMAIN ids : CleanName(titles[j]) = L}}
            /\ (\A i \in DOMAIN ids, j \in DOMAIN ids : i # j => ids[i] # ids[j])
                  => Disjoint(sample_map)

C4_Witness ==
    /\ groups_outcome = "inferred"
    /\ Cardinality(DOMAIN sample_map) >= 2
    /\ Len(ZippedIds(file.meta)) >= 2
    /\ \A i \in DOMAIN ZippedIds(file.meta), j \in DOMAIN ZippedIds(file.meta) :
          i # j => ZippedIds(file.meta)[i] # ZippedIds(file.meta)[j]

\* run_analysis has asked its three questions and returned
AnalysisDone == pc = "menu" /\ g2 # Unset

\* the labels exist and every id listed under them is a column
Comparable ==
    /\ g1 \in DOMAIN sample_map
    /\ g2 \in DOMAIN sample_map
    /\ \A g \in {g1, g2} : \A i \in DOMAIN sample_map[g] :
          \E c \in DOMAIN data.columns : data.columns[c] = sample_map[g][i]

\* the number of non-missing values of the probe over the samples listed
NonMissing(g) ==
    Cardinality({x \in ProbeRows(data, target_probe) \X DOMAIN sample_map[g] :
        \E c \in DOMAIN data.columns :
            /\ data.columns[c] = sample_map[g][x[2]]
            /\ data.rows[x[1]].vals[c] # NaN})

ThresholdRule ==
    /\ result.kind = "insufficient_data" <=> (NonMissing(g1) < 2 \/ NonMissing(g2) < 2)
    /\ result.kind = "insufficient_data" => ~result.ttest
    /\ (NonMissing(g1) >= 2 /\ NonMissing(g2) >= 2) => (result.ttest /\ result.printed)

\* C5 (as stated): with the probe and both labels present and every listed
\* id a column, run_analysis reports insufficient data and runs no t-test
\* exactly when a group has fewer than 2 non-missing values; with 2 or more in
\* each group the t-test is run and its results are printed.
C5_Threshold ==
    (AnalysisDone /\ Comparable) => ThresholdRule

\* C5 (amended): for a probe id that labels exactly one row of the matrix,
\* with both labels present and every listed id a column, run_analysis
\* reports insufficient data and runs no t-test exactly when a group has fewer
\* than 2 non-missing values; with 2 or more in each group the t-test is run
\* and its results are printed.
C5_ThresholdOneRow ==
    (AnalysisDone /\ Comparable /\ Cardinality(ProbeRows(data, target_probe)) = 1)
        => ThresholdRule

C5_Witness ==
    /\ AnalysisDone /\ Comparable
    /\ Cardinality(ProbeRows(data, target_probe)) = 1
    /\ g1 # g2
    /\ NonMissing(g1) = 2 /\ NonMissing(g2) = 2
    /\ result.kind = "ok"

\* the ids listed under label g that are no column of the matrix
Absent(g) ==
    {id \in Range(sample_map[g]) : \A c \in DOMAIN data.columns : data.columns[c] # id}

FirstToken(s) ==
    LET starts == {i \in DOMAIN s : s[i] \notin Whitespace}
    IN  IF starts = {} THEN <<>>
        ELSE LET b == CHOOSE i \in starts : \A j \in starts : i <= j
                 e == CHOOSE i \in b..Len(s) :
                         /\ \A j \in b..i : s[j] \notin Whitespace
                         /\ (i = Len(s) \/ s[i + 1] \in Whitespace)
             IN  SubSeq(s, b, e)

\* s cut at its first '_' or ':'
Truncated(s) ==
    LET cuts == {i \in DOMAIN s : s[i] \in {"_", ":"}}
    IN  IF cuts = {} THEN s
        ELSE SubSeq(s, 1, (CHOOSE i \in cuts : \A j \in cuts : i <= j) - 1)

\* C8: the label derived from a title cell is the first whitespace-delimited
\* token of the title, cut at the first '_' or ':', trimmed, its first letter
\* in upper case and the rest in lower case.
C8_LabelIsReference ==
    pc = "labelled" =>
        clean_name = Capitalize(StripSet(Truncated(FirstToken(title)), Whitespace))

C8_Witness ==
    /\ pc = "labelled"
    /\ title = <<" ", "a", "B", ":">>
    /\ clean_name = <<"A", "b">>

AnalysisErrors ==
    {"probe_not_found", "group_not_found", "insufficient_data",
     "sample_id_mismatch", "analysis_error"}

\* C9: after a successful load, an error report of run_analysis leaves the
\* session running at the menu prompt, which accepts the next command; the
\* session ends only by choice 3 or by an interrupt.
C9_ErrorsReturnToMenu ==
    data.loaded =>
        /\ result.kind \in AnalysisErrors =>
              \/ (pc = "menu" /\ status = "running")
              \/ (pc = "done" /\ status = "exited" /\ exit_cause = "interrupt")
        /\ pc = "menu" => ENABLED MenuPrompt
        /\ status # "running" =>
              (status = "exited" /\ exit_cause \in {"exit_command", "interrupt"})

C9_Witness ==
    /\ data.loaded
    /\ result.kind = "insufficient_data"
    /\ pc = "menu"
    /\ status = "running"

\* C10 (as stated): a KeyboardInterrupt at any prompt ends the session by a
\* return of main, never as an uncaught exception.
C10_InterruptNeverUncaught ==
    ~(status = "crashed" /\ exit_cause = "KeyboardInterrupt")

====
